---- MODULE Spec2Model ----
(***************************************************************************)
(* Model of server.js: the POST /api/fotmob/player-stats-batch handler,    *)
(* its per-name search / player-detail resolution against the FotMob       *)
(* wrapper, and the toFantasyStat normalizer.                              *)
(*                                                                         *)
(* JavaScript values are tagged records, so that optional chaining (?.),   *)
(* truthiness (||, &&, !) and String() are computed as the runtime         *)
(* computes them.  Strings are sequences of one-character strings.         *)
(***************************************************************************)
EXTENDS Integers, Sequences, FiniteSets, TLC

VARIABLES
  pc,        \* "idle" | "awaitSearch" | "awaitPlayer" | "responded"
  body,      \* req.body of the request being handled
  players,   \* the local `players` (line 30): a sequence of names
  idx,       \* position of the for-of loop (line 35), 1-based; 0 outside it
  out,       \* the local `out` (line 33): own keys -> FantasyStat
  pending,   \* provider calls of this request that have not settled yet
  status,    \* HTTP status of the response, 0 while none was sent
  resBody,   \* body of the response
  calls,     \* number of provider calls issued for this request
  cur,       \* what happened in the most recent loop iteration
  nname,     \* normalizer run: the name argument
  nfm,       \* normalizer run: the fm argument
  nstat,     \* normalizer run: the returned record
  npc        \* normalizer run: "ready" | "done" | "off"

hvars == <<pc, body, players, idx, out, pending, status, resBody, calls, cur>>
nvars == <<nname, nfm, nstat, npc>>
vars == <<pc, body, players, idx, out, pending, status, resBody, calls, cur,
          nname, nfm, nstat, npc>>

----------------------------------------------------------------------------
(* Bounds of the model *)

MaxPlayers == 3   \* longest `players` array of a request
MaxSeasons == 2   \* longest stats.seasons list of a detail blob
MaxVal == 2       \* largest figure of a generated blob leaf

----------------------------------------------------------------------------
(* JavaScript values *)

Undef == [t |-> "undefined"]
Null == [t |-> "null"]
Num(n) == [t |-> "number", n |-> n]
Str(s) == [t |-> "string", s |-> s]
Obj(f) == [t |-> "object", f |-> f]
Arr(a) == [t |-> "array", a |-> a]
EmptyObj == Obj(<<>>)

\* x ? ... : ... / x || y / !x : JavaScript truthiness
Truthy(v) ==
  CASE v.t = "undefined" -> FALSE
    [] v.t = "null" -> FALSE
    [] v.t = "number" -> v.n # 0
    [] v.t = "string" -> v.s # <<>>
    [] OTHER -> TRUE

\* a || b
JsOr(a, b) == IF Truthy(a) THEN a ELSE b

\* x?.k : undefined on null/undefined, and on any value without the property
Get(x, k) ==
  IF x.t = "object" /\ k \in DOMAIN x.f THEN x.f[k] ELSE Undef

\* x[0]
Index0(x) ==
  CASE x.t = "array" -> IF Len(x.a) > 0 THEN x.a[1] ELSE Undef
    [] x.t = "string" -> IF Len(x.s) > 0 THEN Str(<<x.s[1]>>) ELSE Undef
    [] OTHER -> Get(x, "0")

Digit(d) ==
  CASE d = 0 -> "0" [] d = 1 -> "1" [] d = 2 -> "2" [] d = 3 -> "3"
    [] d = 4 -> "4" [] d = 5 -> "5" [] d = 6 -> "6" [] d = 7 -> "7"
    [] d = 8 -> "8" [] d = 9 -> "9"

RECURSIVE Digits(_)
Digits(n) == IF n < 10 THEN <<Digit(n)>> ELSE Digits(n \div 10) \o <<Digit(n % 10)>>

\* String(v)
ToStr(v) ==
  CASE v.t = "string" -> v.s
    [] v.t = "number" -> IF v.n < 0 THEN <<"-">> \o Digits(0 - v.n) ELSE Digits(v.n)
    [] v.t = "undefined" -> <<"u","n","d","e","f","i","n","e","d">>
    [] v.t = "null" -> <<"n","u","l","l">>
    [] v.t = "array" -> <<>>
    [] OTHER -> <<"[","o","b","j","e","c","t"," ","O","b","j","e","c","t","]">>

\* s.includes(pat)
Includes(s, pat) ==
  \E i \in 1..(Len(s) - Len(pat) + 1) : SubSeq(s, i, i + Len(pat) - 1) = pat

Max(a, b) == IF a >= b THEN a ELSE b

----------------------------------------------------------------------------
(* toFantasyStat, lines 15-25 *)

\* fm?.stats?.k || fm?.alt?.altk || 0
Pick(fm, k, alt, altk) ==
  JsOr(JsOr(Get(Get(fm, "stats"), k), Get(Get(fm, alt), altk)), Num(0))

\* toFantasyStat with the difference goalsTotal - pens left unclamped
toFantasyStatNoClamp(name, fm) ==
  LET minutes == Pick(fm, "minutes", "games", "minutes")
      goalsTotal == Pick(fm, "goals", "goals", "total")
      pens == Pick(fm, "penaltiesScored", "penalty", "scored")
      assists == Pick(fm, "assists", "goals", "assists")
      yellow == Pick(fm, "yellow", "cards", "yellow")
      red == Pick(fm, "red", "cards", "red")
  IN [name |-> name,
      nonPenaltyGoals |-> goalsTotal.n - pens.n,
      penaltyGoals |-> JsOr(pens, Num(0)).n,
      assists |-> JsOr(assists, Num(0)).n,
      minutes |-> minutes.n,
      yellowCards |-> JsOr(yellow, Num(0)).n,
      redCards |-> JsOr(red, Num(0)).n,
      motm |-> FALSE]

toFantasyStat(name, fm) ==
  LET minutes == Pick(fm, "minutes", "games", "minutes")
      goalsTotal == Pick(fm, "goals", "goals", "total")
      pens == Pick(fm, "penaltiesScored", "penalty", "scored")
      assists == Pick(fm, "assists", "goals", "assists")
      yellow == Pick(fm, "yellow", "cards", "yellow")
      red == Pick(fm, "red", "cards", "red")
  IN [name |-> name,
      nonPenaltyGoals |-> Max(0, goalsTotal.n - pens.n),
      penaltyGoals |-> JsOr(pens, Num(0)).n,
      assists |-> JsOr(assists, Num(0)).n,
      minutes |-> minutes.n,
      yellowCards |-> JsOr(yellow, Num(0)).n,
      redCards |-> JsOr(red, Num(0)).n,
      motm |-> FALSE]

----------------------------------------------------------------------------
(* Blobs the provider may hand back.  The wrapper's shape is not fixed, so *)
(* every leaf may be absent, and a figure may be zero or negative.         *)

\* an object literal that leaves out the keys whose value is undefined
Prune(f) == Obj([k \in {j \in DOMAIN f : f[j] # Undef} |-> f[k]])

\* a sub-object, absent when it would have no key at all
Sub(f) == IF Prune(f) = EmptyObj THEN Undef ELSE Prune(f)

Figures == {0 - 1} \cup (0..MaxVal)
Leaf == {Undef} \cup {Num(n) : n \in Figures}

\* a blob with the stats-namespaced leaves s* and the legacy leaves l*
Blob(sm, sg, sp, sa, sy, sr, lm, lg, lp, la, ly, lr) ==
  Prune("stats" :> Sub("minutes" :> sm @@ "goals" :> sg @@ "penaltiesScored" :> sp
                        @@ "assists" :> sa @@ "yellow" :> sy @@ "red" :> sr)
        @@ "games" :> Sub("minutes" :> lm)
        @@ "goals" :> Sub("total" :> lg @@ "assists" :> la)
        @@ "penalty" :> Sub("scored" :> lp)
        @@ "cards" :> Sub("yellow" :> ly @@ "red" :> lr))

\* the figures of the documented example: goals 20, of which 5 penalties
HaalandStats ==
  Obj("goals" :> Num(20) @@ "penaltiesScored" :> Num(5) @@ "assists" :> Num(3)
      @@ "minutes" :> Num(1500) @@ "yellow" :> Num(2) @@ "red" :> Num(0))

NormNames == {"Erling Haaland"}

\* arguments of the normalizer runs: goals and penalties vary independently
\* on both paths, the other four fields share one (stats, legacy) pair
NormInputs ==
  {Null, Undef, EmptyObj, Num(7), HaalandStats, Obj("stats" :> HaalandStats)}
  \cup {Blob(s, sg, sp, l, s, l, l, lg, lp, s, l, s) :
          sg \in Leaf, lg \in Leaf, sp \in Leaf, lp \in Leaf, s \in Leaf, l \in Leaf}

\* the outcome of a provider call: not made, returned v, or threw v
None == [k |-> "none", v |-> Undef]
Ret(v) == [k |-> "ret", v |-> v]
Threw(v) == [k |-> "throw", v |-> v]

\* the record kept of the most recent loop iteration
NoIter ==
  [i |-> 0, name |-> "", sres |-> None, called |-> FALSE, pres |-> None,
   via |-> "none", agg |-> Undef, rec |-> Undef, done |-> FALSE]

----------------------------------------------------------------------------
(* The normalizer on its own: one call of toFantasyStat per behaviour *)

HandlerIdle ==
  /\ pc = "idle"
  /\ body = Undef
  /\ players = <<>>
  /\ idx = 0
  /\ out = <<>>
  /\ pending = {}
  /\ status = 0
  /\ resBody = Undef
  /\ calls = 0
  /\ cur = NoIter

InitNorm ==
  /\ HandlerIdle
  /\ nname \in NormNames
  /\ nfm \in NormInputs
  /\ nstat = Undef
  /\ npc = "ready"

Normalize ==
  /\ npc = "ready"
  /\ nstat' = toFantasyStat(nname, nfm)
  /\ npc' = "done"
  /\ UNCHANGED <<nname, nfm>>
  /\ UNCHANGED hvars

NextNorm == Normalize

SpecNorm == InitNorm /\ [][NextNorm]_vars

----------------------------------------------------------------------------
(* Requests and provider outcomes *)

Names == {"Erling Haaland", "Unknown Player XYZ"}

\* every sequence over S of length at most n
SeqsUpTo(S, n) == UNION {[1..k -> S] : k \in 0..n}

\* req.body after express.json(): always an object; `players` may be missing,
\* of another type, empty, or an array of names
Bodies ==
  {EmptyObj, Obj("players" :> Null), Obj("players" :> Num(3)),
   Obj("players" :> Str(<<"a", "b">>)), Obj("players" :> EmptyObj),
   Obj("season" :> Num(2025))}
  \cup {Obj("players" :> Arr(ps)) : ps \in SeqsUpTo(Names, MaxPlayers)}

Cand(id) == Prune("id" :> id @@ "name" :> Str(<<"n">>))

\* what fotmob.search may resolve to
SearchResults ==
  {Undef, Null, EmptyObj,
   Obj("players" :> Null),
   Obj("players" :> Arr(<<>>)),
   Obj("players" :> Arr(<<Null>>)),
   Obj("players" :> Arr(<<Cand(Undef)>>)),
   Obj("players" :> Arr(<<Cand(Null)>>)),
   Obj("players" :> Arr(<<Cand(Num(0))>>)),
   Obj("players" :> Arr(<<Cand(Num(7))>>)),
   Obj("players" :> Arr(<<Cand(Undef), Cand(Num(7))>>)),
   Obj("players" :> Arr(<<Cand(Num(7)), Cand(Num(8))>>))}

\* an Error instance: an object with a message
ErrorObj == Obj("message" :> Str(<<"e","r","r">>))

\* what a provider call may throw or reject with: any value
Thrown == {ErrorObj, Str(<<"d","o","w","n">>), Null, Undef}

S2025 == <<"2","0","2","5">>
S2024 == <<"2","0","2","4">>

\* one row of a season list, with its figures under a stats sub-object
Entry(label, g) ==
  Prune("season" :> label
        @@ "stats" :> Obj("goals" :> Num(g) @@ "minutes" :> Num(90)))

Entries ==
  {Null,
   Entry(Str(S2025 \o <<"/">> \o <<"2","6">>), 2),
   Entry(Num(2025), 1),
   Entry(Str(S2024), 2),
   Entry(Undef, 1)}

\* a detail blob with a season list and generic figures
SeasonBlob(l) ==
  Obj("stats" :> Obj("seasons" :> l
                     @@ "stats" :> Obj("goals" :> Num(3) @@ "penaltiesScored" :> Num(1)))
      @@ "goals" :> Obj("total" :> Num(1)))

\* a detail blob without a stats sub-object; its red-card figure is negative
LegacyBlob ==
  Blob(Undef, Undef, Undef, Undef, Undef, Undef,
       Num(90), Num(3), Num(1), Num(1), Num(1), Num(0 - 1))

\* what fotmob.player may resolve to
PDatas ==
  {Null, Undef, EmptyObj, LegacyBlob,
   Obj("stats" :> HaalandStats),
   Obj("stats" :> Obj("stats" :> HaalandStats)),
   Obj("stats" :> Num(0) @@ "games" :> Obj("minutes" :> Num(45))),
   SeasonBlob(EmptyObj),
   SeasonBlob(Obj("find" :> Num(1)))}
  \cup {SeasonBlob(Arr(l)) : l \in SeqsUpTo(Entries, MaxSeasons)}

----------------------------------------------------------------------------
(* The handler, lines 28-57.  Each action is one run of the handler from   *)
(* an event (the request, or the settling of the awaited call) up to its   *)
(* next await or its response.                                             *)

\* line 30
PlayersOf(b) ==
  LET p == Get(b, "players") IN IF p.t = "array" THEN p.a ELSE <<>>

\* the validation of line 31 left out
RejectNone(ps) == FALSE

\* line 31: !players.length
Rejected(ps) == Len(ps) = 0

\* out[name] = rec
Put(o, name, rec) ==
  [k \in DOMAIN o \cup {name} |-> IF k = name THEN rec ELSE o[k]]

SearchCall(i, name) == [op |-> "search", i |-> i, name |-> name, id |-> Undef]
PlayerCall(i, name, id) == [op |-> "player", i |-> i, name |-> name, id |-> id]

\* line 39
BestOf(results) ==
  LET pl == Get(results, "players")
  IN JsOr(IF Truthy(pl) THEN Index0(pl) ELSE pl, Null)

\* line 40 written as !best: a candidate without an id passes
LacksIdOnlyIfNoCandidate(best) == ~Truthy(best)

\* line 40: !best?.id
LacksId(best) == ~Truthy(Get(best, "id"))

\* the callback handed to find on line 44; it throws on a null or undefined row
RECURSIVE Find(_, _)
Find(a, i) ==
  IF i > Len(a) THEN [thrown |-> FALSE, v |-> Undef]
  ELSE IF a[i].t \in {"null", "undefined"} THEN [thrown |-> TRUE, v |-> Undef]
  ELSE IF Includes(ToStr(Get(a[i], "season")), S2025) THEN [thrown |-> FALSE, v |-> a[i]]
  ELSE Find(a, i + 1)

\* line 44 without its || pdata?.stats
SeasonAggNoFallback(pdata) ==
  LET seasons == Get(Get(pdata, "stats"), "seasons")
  IN CASE seasons.t = "array" -> Find(seasons.a, 1)
       [] Get(seasons, "find").t \in {"undefined", "null"} -> [thrown |-> FALSE, v |-> Undef]
       [] OTHER -> [thrown |-> TRUE, v |-> Undef]

\* line 44: pdata?.stats?.seasons?.find?.(...) || pdata?.stats
SeasonAgg(pdata) ==
  LET st == Get(pdata, "stats")
      seasons == Get(st, "seasons")
      found == CASE seasons.t = "array" -> Find(seasons.a, 1)
                 [] Get(seasons, "find").t \in {"undefined", "null"} ->
                      [thrown |-> FALSE, v |-> Undef]
                 [] OTHER -> [thrown |-> TRUE, v |-> Undef]
  IN IF found.thrown THEN found ELSE [thrown |-> FALSE, v |-> JsOr(found.v, st)]

\* lines 35-38 and 52: the loop head at position i with `out` = o, or res.json(out)
Iterate(ps, i, o, pend, n) ==
  /\ out' = o
  /\ idx' = i
  /\ IF i <= Len(ps)
     THEN /\ pc' = "awaitSearch"
          /\ pending' = pend \cup {SearchCall(i, ps[i])}
          /\ calls' = n + 1
          /\ status' = 0
          /\ resBody' = Undef
     ELSE /\ pc' = "responded"
          /\ pending' = pend
          /\ calls' = n
          /\ status' = 200
          /\ resBody' = o

\* lines 29-33
Receive(b) ==
  /\ pc \in {"idle", "responded"}
  /\ body' = b
  /\ players' = PlayersOf(b)
  /\ cur' = NoIter
  /\ IF Rejected(PlayersOf(b))
     THEN /\ pc' = "responded"
          /\ status' = 400
          /\ resBody' = [error |-> "players array required"]
          /\ out' = <<>>
          /\ idx' = 0
          /\ pending' = {}
          /\ calls' = 0
     ELSE Iterate(PlayersOf(b), 1, <<>>, {}, 0)
  /\ UNCHANGED nvars

\* lines 46-49, then 53-56 when the catch block itself throws on e.message
Catch(e, it, pend) ==
  IF e.t \in {"null", "undefined"}
  THEN /\ cur' = [it EXCEPT !.via = "catch", !.done = TRUE]
       /\ pc' = "responded"
       /\ status' = 500
       /\ resBody' = [error |-> "server_error"]
       /\ pending' = pend
       /\ UNCHANGED <<out, idx, calls>>
  ELSE /\ cur' = [it EXCEPT !.via = "catch", !.agg = Null, !.done = TRUE,
                            !.rec = toFantasyStat(it.name, Null)]
       /\ Iterate(players, idx + 1, Put(out, it.name, toFantasyStat(it.name, Null)),
                  pend, calls)

\* lines 38-45 with fotmob.player called but not awaited: the pending promise
\* is normalized and the loop goes on
SearchResolveNoAwait(c, results) ==
  /\ pc = "awaitSearch"
  /\ c \in pending /\ c.op = "search" /\ c.i = idx
  /\ LET name == players[idx]
         best == BestOf(results)
         it == [NoIter EXCEPT !.i = idx, !.name = name, !.sres = Ret(results)]
     IN IF LacksId(best)
        THEN /\ cur' = [it EXCEPT !.via = "short", !.agg = Null, !.done = TRUE,
                                  !.rec = toFantasyStat(name, Null)]
             /\ Iterate(players, idx + 1, Put(out, name, toFantasyStat(name, Null)),
                        pending \ {c}, calls)
        ELSE /\ cur' = [it EXCEPT !.called = TRUE, !.via = "select", !.agg = EmptyObj,
                                  !.done = TRUE, !.rec = toFantasyStat(name, EmptyObj)]
             /\ Iterate(players, idx + 1, Put(out, name, toFantasyStat(name, EmptyObj)),
                        (pending \ {c}) \cup {PlayerCall(idx, name, Get(best, "id"))},
                        calls + 1)
  /\ UNCHANGED <<body, players>>
  /\ UNCHANGED nvars

\* lines 38-42: the awaited search resolved
SearchResolve(c, results) ==
  /\ pc = "awaitSearch"
  /\ c \in pending /\ c.op = "search" /\ c.i = idx
  /\ LET name == players[idx]
         best == BestOf(results)
         it == [NoIter EXCEPT !.i = idx, !.name = name, !.sres = Ret(results)]
     IN IF LacksId(best)
        THEN /\ cur' = [it EXCEPT !.via = "short", !.agg = Null, !.done = TRUE,
                                  !.rec = toFantasyStat(name, Null)]
             /\ Iterate(players, idx + 1, Put(out, name, toFantasyStat(name, Null)),
                        pending \ {c}, calls)
        ELSE /\ cur' = [it EXCEPT !.called = TRUE]
             /\ pc' = "awaitPlayer"
             /\ pending' = (pending \ {c}) \cup {PlayerCall(idx, name, Get(best, "id"))}
             /\ calls' = calls + 1
             /\ UNCHANGED <<out, idx, status, resBody>>
  /\ UNCHANGED <<body, players>>
  /\ UNCHANGED nvars

\* line 38 threw or rejected
SearchReject(c, e) ==
  /\ pc = "awaitSearch"
  /\ c \in pending /\ c.op = "search" /\ c.i = idx
  /\ Catch(e, [NoIter EXCEPT !.i = idx, !.name = players[idx], !.sres = Threw(e)],
           pending \ {c})
  /\ UNCHANGED <<body, players>>
  /\ UNCHANGED nvars

\* lines 42-45: the awaited player call resolved
PlayerResolve(c, pdata) ==
  /\ pc = "awaitPlayer"
  /\ c \in pending /\ c.op = "player" /\ c.i = idx
  /\ LET name == players[idx]
         it == [cur EXCEPT !.pres = Ret(pdata)]
         sel == SeasonAgg(pdata)
         agg == JsOr(sel.v, pdata)
     IN IF sel.thrown
        THEN Catch(ErrorObj, it, pending \ {c})
        ELSE /\ cur' = [it EXCEPT !.via = "select", !.agg = agg, !.done = TRUE,
                                  !.rec = toFantasyStat(name, agg)]
             /\ Iterate(players, idx + 1, Put(out, name, toFantasyStat(name, agg)),
                        pending \ {c}, calls)
  /\ UNCHANGED <<body, players>>
  /\ UNCHANGED nvars

\* line 42 threw or rejected
PlayerReject(c, e) ==
  /\ pc = "awaitPlayer"
  /\ c \in pending /\ c.op = "player" /\ c.i = idx
  /\ Catch(e, [cur EXCEPT !.pres = Threw(e)], pending \ {c})
  /\ UNCHANGED <<body, players>>
  /\ UNCHANGED nvars

Init ==
  /\ HandlerIdle
  /\ nname = ""
  /\ nfm = Undef
  /\ nstat = Undef
  /\ npc = "off"

Next ==
  \/ \E b \in Bodies : Receive(b)
  \/ \E c \in pending : \E r \in SearchResults : SearchResolve(c, r)
  \/ \E c \in pending : \E e \in Thrown : SearchReject(c, e)
  \/ \E c \in pending : \E d \in PDatas : PlayerResolve(c, d)
  \/ \E c \in pending : \E e \in Thrown : PlayerReject(c, e)

Spec == Init /\ [][Next]_vars

----------------------------------------------------------------------------
(* Properties *)

\* the zero record: every figure 0, motm false, the name echoed
ZeroStat(name) ==
  [name |-> name, nonPenaltyGoals |-> 0, penaltyGoals |-> 0, assists |-> 0,
   minutes |-> 0, yellowCards |-> 0, redCards |-> 0, motm |-> FALSE]

Range(q) == {q[i] : i \in 1..Len(q)}
Nullish(v) == v.t \in {"null", "undefined"}
Min(S) == CHOOSE m \in S : \A x \in S : m <= x

\* the request carries a non-empty array of names
ValidRequest ==
  Get(body, "players").t = "array" /\ Len(Get(body, "players").a) > 0

\* C1: every request with a non-empty array of names is answered 200 with an
\* object whose key set is exactly the set of names, whatever the provider
\* returns or throws.
C1_AlwaysFullyKeyed ==
  (pc = "responded" /\ ValidRequest)
    => (status = 200 /\ DOMAIN resBody = Range(Get(body, "players").a))

\* the most recent iteration failed: a call threw, or the blob made the scan throw
FailedIter == cur.sres.k = "throw" \/ cur.pres.k = "throw" \/ cur.via = "catch"

\* C2: a failure while resolving one name is caught inside that name's
\* iteration: the name maps to the all-zero record, the loop goes on, and the
\* response is never 500.
C2_FailureIsolated ==
  /\ status # 500
  /\ (cur.i > 0 /\ FailedIter)
       => /\ cur.done
          /\ cur.name \in DOMAIN out
          /\ out[cur.name] = ZeroStat(cur.name)
          /\ pc \in {"awaitSearch", "responded"}
          /\ (pc = "responded" => status = 200)

\* `players` is missing, not an array, or an empty array
InvalidBody(b) ==
  LET p == Get(b, "players") IN p.t # "array" \/ Len(p.a) = 0

\* C3: a request without a non-empty players array is answered 400 with
\* {error: 'players array required'} and no provider call is made for it.
C3_InvalidRejected ==
  (pc # "idle" /\ InvalidBody(body))
    => /\ pc = "responded"
       /\ status = 400
       /\ resBody = [error |-> "players array required"]
       /\ calls = 0
       /\ pending = {}

C3_Witness ==
  /\ pc = "responded"
  /\ status = 400
  /\ Get(body, "players") = Arr(<<>>)
  /\ calls = 0

StatKeys == {"goals", "penaltiesScored", "assists", "minutes", "yellow", "red"}

\* the blob carries all six figures in a stats sub-object and no season list
FiguresInStats(pd) ==
  LET st == Get(pd, "stats")
  IN /\ st.t = "object"
     /\ "seasons" \notin DOMAIN st.f
     /\ \A k \in StatKeys : Get(st, k).t = "number"

\* C4: for a name whose search returns a candidate with an id and whose detail
\* blob carries goals g, penaltiesScored p, assists a, minutes m, yellow y and
\* red r in a stats sub-object, with no season list, the stored record is
\* {name, max(0, g - p), p, a, m, y, r, motm false}.
C4_StatsFiguresStored ==
  (cur.done /\ cur.called /\ cur.pres.k = "ret" /\ FiguresInStats(cur.pres.v))
    => LET st == Get(cur.pres.v, "stats")
       IN /\ cur.name \in DOMAIN out
          /\ out[cur.name] =
               [name |-> cur.name,
                nonPenaltyGoals |-> Max(0, Get(st, "goals").n - Get(st, "penaltiesScored").n),
                penaltyGoals |-> Get(st, "penaltiesScored").n,
                assists |-> Get(st, "assists").n,
                minutes |-> Get(st, "minutes").n,
                yellowCards |-> Get(st, "yellow").n,
                redCards |-> Get(st, "red").n,
                motm |-> FALSE]

\* the figure the fallback policy extracts: the first of the stats path and the
\* legacy path that holds a non-zero number, else 0
Extracted(fm, k, alt, altk) ==
  LET a == Get(Get(fm, "stats"), k)
      b == Get(Get(fm, alt), altk)
  IN IF a.t = "number" /\ a.n # 0 THEN a.n
     ELSE IF b.t = "number" /\ b.n # 0 THEN b.n
     ELSE 0

\* C5: for every blob, nonPenaltyGoals = max(0, totalGoals - penaltyGoals) for
\* the extracted totalGoals and penaltyGoals, and it is never negative, also
\* when penaltyGoals > totalGoals.
C5_NonPenaltyGoalsClamped ==
  npc = "done"
    => LET total == Extracted(nfm, "goals", "goals", "total")
           pens == Extracted(nfm, "penaltiesScored", "penalty", "scored")
       IN /\ nstat.nonPenaltyGoals >= 0
          /\ nstat.penaltyGoals = pens
          /\ nstat.nonPenaltyGoals = (IF total - pens > 0 THEN total - pens ELSE 0)

C5_Witness ==
  /\ npc = "done"
  /\ Extracted(nfm, "penaltiesScored", "penalty", "scored")
       > Extracted(nfm, "goals", "goals", "total")
  /\ Extracted(nfm, "goals", "goals", "total") > 0
  /\ nstat.nonPenaltyGoals = 0

\* C6: every FantasyStat of every 200 response has penaltyGoals, assists,
\* minutes, yellowCards and redCards non-negative, whatever the blob held, and
\* motm = false.
C6_FiguresNonNegative ==
  (pc = "responded" /\ status = 200)
    => \A k \in DOMAIN resBody :
         /\ resBody[k].penaltyGoals >= 0
         /\ resBody[k].assists >= 0
         /\ resBody[k].minutes >= 0
         /\ resBody[k].yellowCards >= 0
         /\ resBody[k].redCards >= 0
         /\ resBody[k].motm = FALSE

\* both paths of a field are present in the blob
BothPresent(fm, k, alt, altk) ==
  Get(Get(fm, "stats"), k).t = "number" /\ Get(Get(fm, alt), altk).t = "number"

\* C7: whenever both the stats-namespaced path and the legacy path of a field
\* are present, the value of the stats-namespaced path is the one used, for
\* every value it may hold, including 0.
C7_StatsPathWins ==
  npc = "done"
    => LET st == Get(nfm, "stats")
       IN /\ BothPresent(nfm, "minutes", "games", "minutes")
               => nstat.minutes = Get(st, "minutes").n
          /\ BothPresent(nfm, "penaltiesScored", "penalty", "scored")
               => nstat.penaltyGoals = Get(st, "penaltiesScored").n
          /\ BothPresent(nfm, "assists", "goals", "assists")
               => nstat.assists = Get(st, "assists").n
          /\ BothPresent(nfm, "yellow", "cards", "yellow")
               => nstat.yellowCards = Get(st, "yellow").n
          /\ BothPresent(nfm, "red", "cards", "red")
               => nstat.redCards = Get(st, "red").n
          /\ BothPresent(nfm, "goals", "goals", "total")
               => nstat.nonPenaltyGoals
                    = Max(0, Get(st, "goals").n - nstat.penaltyGoals)

\* the search gave no candidate list, an empty one, or a first candidate
\* without an identifier
NoCandidate(results) ==
  LET pl == Get(results, "players")
  IN \/ pl.t # "array"
     \/ Len(pl.a) = 0
     \/ Nullish(Get(pl.a[1], "id"))

\* C8: for a name whose search returns no candidate list, an empty list, or a
\* first candidate without an identifier, player detail is never called for
\* that name and the zero record is stored under the input string.
C8_NoCandidateShortCircuits ==
  (cur.i > 0 /\ cur.sres.k = "ret" /\ NoCandidate(cur.sres.v))
    => /\ ~cur.called
       /\ cur.pres.k = "none"
       /\ \A c \in pending : ~(c.op = "player" /\ c.i = cur.i)
       /\ cur.done
       /\ cur.name \in DOMAIN out
       /\ out[cur.name] = ZeroStat(cur.name)

C8_Witness ==
  /\ cur.i > 0
  /\ cur.sres = Ret(Obj("players" :> Arr(<<Cand(Undef), Cand(Num(7))>>)))
  /\ cur.done
  /\ out[cur.name] = ZeroStat(cur.name)

\* C9: names are resolved one at a time in input order: at most one provider
\* call is outstanding, it belongs to the current position, the search for
\* position i+1 is outstanding only once position i is finished, and a detail
\* call is outstanding only once the same name's search has returned.
C9_OneCallAtATime ==
  /\ Cardinality(pending) <= 1
  /\ (pc \in {"awaitSearch", "awaitPlayer"}) => pending # {}
  /\ (pc \in {"idle", "responded"}) => pending = {}
  /\ \A c \in pending :
       /\ c.i = idx
       /\ c.name = players[idx]
       /\ c.op = "search"
            => /\ pc = "awaitSearch"
               /\ cur.i = idx - 1
               /\ (idx > 1 => cur.done)
       /\ c.op = "player"
            => /\ pc = "awaitPlayer"
               /\ cur.i = idx
               /\ cur.sres.k = "ret"
               /\ ~cur.done

C9_Witness ==
  /\ pc = "awaitSearch"
  /\ idx = 2
  /\ cur.i = 1
  /\ cur.called
  /\ cur.pres.k = "ret"
  /\ pending = {SearchCall(2, players[2])}

\* the season list of a blob, empty when there is none
SeasonList(pd) ==
  LET l == Get(Get(pd, "stats"), "seasons") IN IF l.t = "array" THEN l.a ELSE <<>>

\* positions of the rows whose season label contains "2025"
Matching(l) ==
  {i \in 1..Len(l) : ~Nullish(l[i]) /\ Includes(ToStr(Get(l[i], "season")), S2025)}

\* the first matching row, else the stats sub-object, else the whole blob
Selected(pd) ==
  LET l == SeasonList(pd)
      st == Get(pd, "stats")
  IN IF Matching(l) # {} THEN l[Min(Matching(l))]
     ELSE IF st.t = "object" THEN st
     ELSE pd

\* the season list is an array or absent: stats.seasons is no non-array value
\* carrying a find property of its own
ListOrAbsent(pd) ==
  LET s == Get(Get(pd, "stats"), "seasons")
  IN s.t = "array" \/ Nullish(Get(s, "find"))

\* the scan reaches a null or undefined row before any matching row
NullRowFirst(pd) ==
  LET l == SeasonList(pd)
      stop == IF Matching(l) = {} THEN Len(l) + 1 ELSE Min(Matching(l))
  IN \E i \in 1..Len(l) : i < stop /\ Nullish(l[i])

====
